---- MODULE Spec2Model ----
(***************************************************************************)
(* A model of the Masa API log viewer (src/main.py): the fetch thread      *)
(* MasaLogAPIThread, and the MasaLogViewer window with its filter rows,    *)
(* key/value and time filtering, sorting and pagination.                   *)
(*                                                                         *)
(* Text is modelled as a sequence of one-character strings, so that        *)
(* str.strip(), "==" and "in" are computed character by character.         *)
(* A canonical timestamp "YYYY-MM-DD HH:MM:SS" is modelled by its ordinal  *)
(* (1..MaxTime): the format is fixed-width and zero-padded, so the string  *)
(* order is the numeric order.  Every MasaLogEntry carries the number of   *)
(* the response line it was built from (field "line"): it stands for the   *)
(* identity of the Python object and is read by no operation of the        *)
(* program.  user_agent, ip_address and raw_otd are read by no filtering,  *)
(* sorting or paging code and are left out of the record.                  *)
(***************************************************************************)
EXTENDS Integers, Sequences, FiniteSets, TLC

\* ------------------------------------------------------------------ bounds
\* The largest timestamp ordinal of a log line and of a time-edit widget.
MaxTime == 2
\* The number of filter rows the user keeps on screen at once.
MaxRows == 1
\* The cap on _filter_id_counter (the counter is unbounded in the code).
MaxIds == 2
\* The number of fetch threads that may exist undelivered at once.
MaxThreads == 2
\* The number of records of parsed_list in FilterSpec.
MaxRecs == 2
\* The number of filter rows in FilterSpec.
MaxFilterRows == 2
\* The number of pages of the longest filtered_list in PageSpec.
MaxPages == 4
\* The number of filter rows on screen at once, and the cap on
\* _filter_id_counter, in RowSpec.
MaxEntryRows == 3
MaxEntryIds == 4
\* The number of lines of the longest response body in ExtractSpec.
MaxLines == 3

\* ------------------------------------------------------------------ text
\* The characters str.strip() removes.
IsSpace(c) == c \in {" ", "\t"}

RECURSIVE LStrip(_)
LStrip(s) ==
    IF s = <<>> THEN <<>>
    ELSE IF IsSpace(Head(s)) THEN LStrip(Tail(s)) ELSE s

RECURSIVE RStrip(_)
RStrip(s) ==
    IF s = <<>> THEN <<>>
    ELSE IF IsSpace(s[Len(s)]) THEN RStrip(SubSeq(s, 1, Len(s) - 1)) ELSE s

\* A mutant of Strip: the text is taken as typed.
StripNothing(s) == s

\* str.strip(): leading and trailing whitespace removed, the rest untouched.
Strip(s) == RStrip(LStrip(s))

\* Python's "sub in s" on strings.
StrIn(sub, s) ==
    \E i \in 0..(Len(s) - Len(sub)) : SubSeq(s, i + 1, i + Len(sub)) = sub

\* The decimal digits of a natural number, as str(int) writes them.
Digit(d) == <<"0", "1", "2", "3", "4", "5", "6", "7", "8", "9">>[d + 1]

RECURSIVE Digits(_)
Digits(n) == IF n < 10 THEN <<Digit(n)>> ELSE Digits(n \div 10) \o <<Digit(n % 10)>>

\* A JSON value of post_params: a string or an integer.
StrVal(s) == [t |-> "str", s |-> s, n |-> 0]
IntVal(n) == [t |-> "int", s |-> <<>>, n |-> n]

\* str(value), line 530.
PyStr(v) == IF v.t = "int" THEN Digits(v.n) ELSE v.s

\* record.post_params.get(key, ""), line 530.
ParamGet(pp, key) == IF key \in DOMAIN pp THEN pp[key] ELSE StrVal(<<>>)

\* ------------------------------------------------------------ FieldMatcher
\* A mutant of _entry_matches_condition: the include flag is not honoured.
entry_matches_ignoring_include(entry, value) ==
    IF entry.blur THEN StrIn(entry.value, value) ELSE entry.value = value

\* _entry_matches_condition, lines 570-575.
entry_matches_condition(entry, value) ==
    LET result == IF entry.blur THEN StrIn(entry.value, value)
                  ELSE entry.value = value
    IN  IF entry.include THEN result ELSE ~result

\* The range of a sequence.
Range(s) == {s[i] : i \in DOMAIN s}

\* A mutant of record_matches: every condition must match (AND within a key).
record_matches_all(conditions, record) ==
    \A c \in Range(conditions) :
        entry_matches_condition(c, PyStr(ParamGet(record.post_params, c.key)))

\* record_matches over grouped_conditions, lines 522-533: for every key of
\* the groups, any condition of the group matches the record's value.
record_matches(conditions, record) ==
    LET keys == {c.key : c \in Range(conditions)}
        cond_list(key) == SelectSeq(conditions, LAMBDA c : c.key = key)
    IN  \A key \in keys :
            LET value == PyStr(ParamGet(record.post_params, key))
            IN  \E i \in DOMAIN cond_list(key) :
                    entry_matches_condition(cond_list(key)[i], value)

\* ---------------------------------------------------------- RecordExtractor
\* The invalid-time sentinel of line 103, as a timestamp that is no ordinal.
InvalidTime == 0

\* A response line: whether it has the outer shape of the regular expression
\* of lines 88-89, its bracketed timestamp text (iso = 0: text that
\* datetime.fromisoformat rejects; iso = n > 0: an ISO-8601 time whose
\* Asia/Taipei rendering is the canonical timestamp of ordinal n), whether
\* its JSON text parses, and the post_params object of the JSON.  deep: the
\* JSON text is well-formed and nests deeper than the interpreter's
\* recursion limit.
Line(shape, iso, json_ok, pp) ==
    [shape |-> shape, iso |-> iso, json_ok |-> json_ok, pp |-> pp,
     deep |-> FALSE]

\* A line of the outer shape whose JSON object nests beyond the recursion
\* limit.
DeepLine(iso, pp) == [Line(TRUE, iso, TRUE, pp) EXCEPT !.deep = TRUE]

\* json.loads(json_str), line 107: the dict, json.JSONDecodeError for text
\* that is not JSON, RecursionError for JSON nested too deep.
json_loads(l) ==
    IF ~l.json_ok THEN "JSONDecodeError"
    ELSE IF l.deep THEN "RecursionError" ELSE "dict"

\* The empty dict.
EmptyParams == [k \in {} |-> StrVal(<<>>)]

\* Lines 96-103: the formatted timestamp, or the sentinel.
timestamp_formatted(iso) == IF iso >= 1 THEN iso ELSE InvalidTime

\* Lines 105-110 and 127: post_params of the parsed JSON, {} when the JSON
\* is invalid ({"error": ...} has no post_params).
post_params_of(l) == IF l.json_ok THEN l.pp ELSE EmptyParams

\* Lines 106-110 catch json.JSONDecodeError and nothing else: any other
\* exception of json.loads leaves the loop for the handler of line 133.
parse_raises(lines) ==
    \E i \in DOMAIN lines :
        lines[i].shape /\ json_loads(lines[i]) = "RecursionError"

\* Lines 86-131: the entries of the lines that match, in line order.
RECURSIVE parse_from(_, _)
parse_from(lines, n) ==
    IF lines = <<>> THEN <<>>
    ELSE LET l == Head(lines)
             rest == parse_from(Tail(lines), n + 1)
         IN  IF ~l.shape THEN rest
             ELSE <<[timestamp |-> timestamp_formatted(l.iso),
                     post_params |-> post_params_of(l),
                     line |-> n]>> \o rest

parse_lines(lines) == parse_from(lines, 1)

\* response.raise_for_status(), line 79: requests raises HTTPError for the
\* status codes 400..599 and for no other.
raise_for_status(code) == code >= 400 /\ code < 600

\* ------------------------------------------------------------ FilterEngine
\* A mutant of read_conditions: the id of a condition is the 1-based
\* position of its row.
read_conditions_one_based(rws) ==
    LET all == [i \in 1..Len(rws) |->
                   [id |-> i,
                    key |-> Strip(rws[i].key),
                    value |-> Strip(rws[i].val),
                    include |-> rws[i].include,
                    blur |-> rws[i].blur]]
    IN  SelectSeq(all, LAMBDA e : e.key # <<>> /\ e.value # <<>>)

\* A mutant of read_conditions: rows with an empty key or value are kept.
read_conditions_keep_empty(rws) ==
    [i \in 1..Len(rws) |->
        [id |-> i - 1, key |-> Strip(rws[i].key), value |-> Strip(rws[i].val),
         include |-> rws[i].include, blur |-> rws[i].blur]]

\* Lines 495-518: the conditions read back from the filter rows on screen;
\* the id of a condition is the index of its row in the layout.
read_conditions(rws) ==
    LET all == [i \in 1..Len(rws) |->
                   [id |-> i - 1,
                    key |-> Strip(rws[i].key),
                    value |-> Strip(rws[i].val),
                    include |-> rws[i].include,
                    blur |-> rws[i].blur]]
    IN  SelectSeq(all, LAMBDA e : e.key # <<>> /\ e.value # <<>>)

\* Lines 535-537: the key/value step.
filter_conditions(data, conditions) ==
    IF conditions # <<>>
    THEN SelectSeq(data, LAMBDA record : record_matches(conditions, record))
    ELSE data

\* to_dt, lines 540-544: TRUE when strptime parses the timestamp.
to_dt_ok(timestamp) == timestamp # InvalidTime

\* A mutant of filter_time: the bounds are exclusive.
filter_time_strict(data, time_filter_, tb) ==
    CASE time_filter_ = "BEFORE_TIME" ->
            SelectSeq(data, LAMBDA rec :
                to_dt_ok(rec.timestamp) /\ rec.timestamp < tb.before)
      [] time_filter_ = "AFTER_TIME" ->
            SelectSeq(data, LAMBDA rec :
                to_dt_ok(rec.timestamp) /\ rec.timestamp > tb.after)
      [] time_filter_ = "TIME_RANGE" ->
            SelectSeq(data, LAMBDA rec :
                to_dt_ok(rec.timestamp) /\ tb.start < rec.timestamp
                                        /\ rec.timestamp < tb.end)
      [] OTHER -> data

\* Lines 546-560: the time step; tb holds the four time-edit widgets.
filter_time(data, time_filter_, tb) ==
    CASE time_filter_ = "BEFORE_TIME" ->
            SelectSeq(data, LAMBDA rec :
                to_dt_ok(rec.timestamp) /\ rec.timestamp <= tb.before)
      [] time_filter_ = "AFTER_TIME" ->
            SelectSeq(data, LAMBDA rec :
                to_dt_ok(rec.timestamp) /\ rec.timestamp >= tb.after)
      [] time_filter_ = "TIME_RANGE" ->
            SelectSeq(data, LAMBDA rec :
                to_dt_ok(rec.timestamp) /\ tb.start <= rec.timestamp
                                        /\ rec.timestamp <= tb.end)
      [] OTHER -> data

\* ------------------------------------------------------------ SortPaginator
\* The order of two timestamp strings: the sentinel starts with a CJK
\* character and is greater than every canonical timestamp, which starts
\* with a digit.
TsLess(a, b) ==
    IF a = InvalidTime THEN FALSE
    ELSE IF b = InvalidTime THEN TRUE ELSE a < b

Reverse(s) == [i \in 1..Len(s) |-> s[Len(s) + 1 - i]]

\* x put into a list sorted ascending, behind the elements not greater.
RECURSIVE InsertAsc(_, _)
InsertAsc(x, s) ==
    IF s = <<>> THEN <<x>>
    ELSE IF TsLess(x.timestamp, Head(s).timestamp) THEN <<x>> \o s
         ELSE <<Head(s)>> \o InsertAsc(x, Tail(s))

\* x put into a list sorted descending, behind the elements not smaller.
RECURSIVE InsertDesc(_, _)
InsertDesc(x, s) ==
    IF s = <<>> THEN <<x>>
    ELSE IF TsLess(Head(s).timestamp, x.timestamp) THEN <<x>> \o s
         ELSE <<Head(s)>> \o InsertDesc(x, Tail(s))

RECURSIVE SortAsc(_, _)
SortAsc(s, acc) ==
    IF s = <<>> THEN acc ELSE SortAsc(Tail(s), InsertAsc(Head(s), acc))

RECURSIVE SortDesc(_, _)
SortDesc(s, acc) ==
    IF s = <<>> THEN acc ELSE SortDesc(Tail(s), InsertDesc(Head(s), acc))

\* A mutant of sort_by_timestamp: newest-first as the reversed ascending list.
sort_reversing(data, sort_order_) ==
    IF sort_order_ = "NEWEST_FIRST" THEN Reverse(SortAsc(data, <<>>))
    ELSE SortAsc(data, <<>>)

\* Lines 564-566: list.sort(key=timestamp, reverse=...), which is stable
\* with and without reverse.
sort_by_timestamp(data, sort_order_) ==
    IF sort_order_ = "NEWEST_FIRST" THEN SortDesc(data, <<>>)
    ELSE SortAsc(data, <<>>)

\* self.page_size, line 163.
page_size == 10

\* A mutant of total_pages_of: no floor of one page.
total_pages_unfloored(n) == (n + page_size - 1) \div page_size

\* max(1, math.ceil(len / page_size)), lines 602-603 and 355-356.
total_pages_of(n) ==
    LET ceil == (n + page_size - 1) \div page_size
    IN  IF ceil > 1 THEN ceil ELSE 1

Min(a, b) == IF a < b THEN a ELSE b

\* A mutant of page_slice: the page ends one record early.
page_slice_short(list, page) ==
    LET start_index == (page - 1) * page_size
        end_index == Min(start_index + page_size - 1, Len(list))
    IN  SubSeq(list, start_index + 1, end_index)

\* Lines 618-623: filtered_list[start_index:end_index].
page_slice(list, page) ==
    LET start_index == (page - 1) * page_size
        end_index == Min(start_index + page_size, Len(list))
    IN  SubSeq(list, start_index + 1, end_index)

\* ------------------------------------------------------------------ state
VARIABLES
    parsed_list,        \* self.parsed_list
    filtered_list,      \* self.filtered_list
    filter_entries,     \* self.filter_entries
    filter_id_counter,  \* self._filter_id_counter
    rows,               \* the rows of filter_entries_layout (and the keys of
                        \* filter_layout_map): id, texts and checkboxes
    sort_order,         \* self.sort_order
    time_filter,        \* self.time_filter
    time_edits,         \* before/after/start/end_time_edit
    total_size,         \* self.total_size
    current_page,       \* self.current_page
    total_pages,        \* self.total_pages
    displayed,          \* the entries shown in scroll_layout
    loading,            \* self.loading: "none", "shown" or "hidden"
    threads,            \* the MasaLogAPIThread objects not yet delivered
    msgbox,             \* the stack of open QMessageBox dialogs
    crashed,            \* the process was aborted by Qt
    last_op,            \* history: the handler that ran last, when it is
                        \* one that ends in _apply_filters
    prev_page,          \* history: current_page when that handler started
    response            \* history: the body of the response that the step
                        \* of MasaLogAPIThread.run just taken has read

view_vars == <<parsed_list, filtered_list, filter_entries, total_size,
               current_page, total_pages, displayed>>
row_vars == <<filter_id_counter, rows>>
choice_vars == <<sort_order, time_filter, time_edits>>
fetch_vars == <<loading, threads, msgbox, crashed>>
hist_vars == <<last_op, prev_page, response>>

vars == <<view_vars, row_vars, choice_vars, fetch_vars, hist_vars>>

\* datetime.now() at construction, lines 233-265: the value and the upper
\* end of the range of the four time-edit widgets.
NowTime == MaxTime

SortOrders == {"NEWEST_FIRST", "OLDEST_FIRST"}
TimeFilters == {"ALL", "BEFORE_TIME", "AFTER_TIME", "TIME_RANGE"}

\* __init__, lines 162-176, and the _toggle_time_edit of line 323, which
\* applies the filters once.
Init ==
    /\ parsed_list = <<>>
    /\ filtered_list = <<>>
    /\ filter_entries = <<>>
    /\ filter_id_counter = 0
    /\ rows = <<>>
    /\ sort_order = "NEWEST_FIRST"
    /\ time_filter = "ALL"
    /\ time_edits = [before |-> NowTime, after |-> NowTime,
                     start |-> NowTime, end |-> NowTime]
    /\ total_size = 0
    /\ current_page = 1
    /\ total_pages = 1
    /\ displayed = <<>>
    /\ loading = "none"
    /\ threads = <<>>
    /\ msgbox = <<>>
    /\ crashed = FALSE
    /\ last_op = "other"
    /\ prev_page = 0
    /\ response = <<>>

\* An ApplicationModal dialog (the progress dialog of lines 370-374, a
\* QMessageBox) takes the input of the window: no button, combo box, spin
\* box or line edit of the viewer reacts while one is open.
UiFree == ~crashed /\ loading # "shown" /\ msgbox = <<>>

\* History: the handlers that end in _apply_filters are recorded with the
\* page that was shown when they started; any other step clears the record.
Mark(op) == last_op' = op /\ prev_page' = current_page /\ response' = <<>>
Unmarked == last_op' = "other" /\ prev_page' = 0 /\ response' = <<>>

\* _refresh_data, lines 598-609, with _update_status_bar and _display_data.
refresh_data(list, page) ==
    /\ total_size' = Len(list)
    /\ current_page' = page
    /\ total_pages' = total_pages_of(Len(list))
    /\ displayed' = page_slice(list, page)

\* A mutant of apply_filters: the page shown is kept.
apply_filters_keep_page(parsed, rws, order, tf) ==
    LET conditions == read_conditions(rws)
        data == filter_time(filter_conditions(parsed, conditions), tf, time_edits)
        sorted == sort_by_timestamp(data, order)
    IN  /\ filter_entries' = conditions
        /\ filtered_list' = sorted
        /\ refresh_data(sorted, current_page)

\* _apply_filters, lines 490-568, on the parsed list, rows, sort order and
\* time filter its caller has just set.
apply_filters(parsed, rws, order, tf) ==
    LET conditions == read_conditions(rws)
        data == filter_time(filter_conditions(parsed, conditions), tf, time_edits)
        sorted == sort_by_timestamp(data, order)
    IN  /\ filter_entries' = conditions
        /\ filtered_list' = sorted
        /\ refresh_data(sorted, 1)

\* ----------------------------------------------------------------- inputs
\* What the user types into the log-name field.
LogNameTexts == {<<>>, <<" ">>, <<"x">>}

\* What the user types into the key and value field of a filter row.
RowKeys == {<<"k">>}
RowVals == {<<"a">>}

KA == [k \in {<<"k">>} |-> StrVal(<<"a">>)]
KB == [k \in {<<"k">>} |-> StrVal(<<"b">>)]

\* n lines that repeat the lines of pattern in turn.
Cycle(pattern, n) == [i \in 1..n |-> pattern[((i - 1) % Len(pattern)) + 1]]

\* The response bodies of the server: an empty one, and one of more than a
\* page of lines, with equal and different timestamps, among them a line of
\* another shape, an unparsable timestamp and invalid JSON.
Bodies ==
    { <<>>,
      Cycle(<<Line(TRUE, 1, TRUE, KA), Line(TRUE, 1, TRUE, KB),
              Line(TRUE, 2, TRUE, KA), Line(FALSE, 1, TRUE, KA),
              Line(TRUE, 0, TRUE, KB), Line(TRUE, 2, FALSE, KA)>>,
            page_size + 3) }

\* The status codes the server answers with.
StatusCodes == {200, 304, 404}

\* ---------------------------------------------------------------- actions
RemoveAt(s, i) == SubSeq(s, 1, i - 1) \o SubSeq(s, i + 1, Len(s))

\* _query_masa_log, lines 364-381, called with the stripped text of the
\* log-name field (line 193).  The new thread replaces self.api_thread; the
\* thread it held loses its last reference, and a QThread destroyed while
\* it runs aborts the process, or goes on when the object outlives the
\* handle.
QueryMasaLog ==
    /\ UiFree
    /\ \E text \in LogNameTexts :
        IF Strip(text) = <<>>
        THEN /\ msgbox' = Append(msgbox, "warning")
             /\ UNCHANGED <<loading, threads, crashed>>
        ELSE /\ Len(threads) < MaxThreads
             /\ loading' = "shown"
             /\ threads' = Append(
                    [i \in DOMAIN threads |-> [threads[i] EXCEPT !.held = FALSE]],
                    [st |-> "running", outcome |-> "none", code |-> 0,
                     data |-> <<>>, held |-> TRUE])
             /\ IF \E i \in DOMAIN threads :
                       threads[i].held /\ threads[i].st = "running"
                THEN crashed' \in BOOLEAN
                ELSE crashed' = crashed
             /\ msgbox' = msgbox
    /\ Unmarked
    /\ UNCHANGED <<view_vars, row_vars, choice_vars>>

\* The progress dialog is a QDialog: the Escape key and the close button of
\* its window hide it (QDialog.reject, QProgressDialog.closeEvent); lines
\* 370-374 remove the cancel button and install nothing against either.
DismissLoading ==
    /\ ~crashed
    /\ loading = "shown"
    /\ msgbox = <<>>
    /\ loading' = "hidden"
    /\ Unmarked
    /\ UNCHANGED <<view_vars, row_vars, choice_vars, threads, msgbox, crashed>>

\* MasaLogAPIThread.run, lines 71-134, to the signal it emits: the request
\* raises (requests.ConnectionError, requests.Timeout), or answers with a
\* status code and a body; raise_for_status raises on the code, or the
\* lines are parsed.
run(i, codes, bodies) ==
    /\ threads[i].st = "running"
    /\ \/ \E exc \in {"ConnectionError", "Timeout"} :
            /\ threads' = [threads EXCEPT ![i].st = "error_occurred",
                                          ![i].outcome = exc]
            /\ response' = <<>>
       \/ \E code \in codes, body \in bodies :
            /\ response' = body
            /\ IF raise_for_status(code)
               THEN threads' = [threads EXCEPT ![i].st = "error_occurred",
                                               ![i].outcome = "HTTPError",
                                               ![i].code = code]
               ELSE IF parse_raises(body)
               THEN threads' = [threads EXCEPT ![i].st = "error_occurred",
                                               ![i].outcome = "RecursionError",
                                               ![i].code = code]
               ELSE threads' = [threads EXCEPT ![i].st = "data_fetched",
                                               ![i].outcome = "response",
                                               ![i].code = code,
                                               ![i].data = parse_lines(body)]
    /\ last_op' = "other"
    /\ prev_page' = 0

\* A thread started by _query_masa_log runs to its signal.
RunThread ==
    /\ ~crashed
    /\ \E i \in DOMAIN threads : run(i, StatusCodes, Bodies)
    /\ UNCHANGED <<view_vars, row_vars, choice_vars, loading, msgbox, crashed>>

\* A mutant of on_masa_log_api_fetched: the records are added to those held.
on_masa_log_api_fetched_merging(data) ==
    /\ loading' = "hidden"
    /\ parsed_list' = parsed_list \o data
    /\ apply_filters(parsed_list \o data, rows, sort_order, time_filter)

\* The body of _on_masa_log_api_fetched, lines 383-386, on the list the
\* signal carries.
on_masa_log_api_fetched(data) ==
    /\ loading' = "hidden"
    /\ parsed_list' = data
    /\ apply_filters(data, rows, sort_order, time_filter)

\* _on_masa_log_api_fetched, lines 383-386, as the slot of the data_fetched
\* signal of a thread.
OnMasaLogApiFetched ==
    /\ ~crashed
    /\ \E i \in DOMAIN threads :
        /\ threads[i].st = "data_fetched"
        /\ on_masa_log_api_fetched(threads[i].data)
        /\ threads' = RemoveAt(threads, i)
    /\ Mark("_on_masa_log_api_fetched")
    /\ UNCHANGED <<row_vars, choice_vars, msgbox, crashed>>

\* _on_masa_log_api_error, lines 388-390.
OnMasaLogApiError ==
    /\ ~crashed
    /\ \E i \in DOMAIN threads :
        /\ threads[i].st = "error_occurred"
        /\ loading' = "hidden"
        /\ msgbox' = Append(msgbox, "critical")
        /\ threads' = RemoveAt(threads, i)
    /\ Unmarked
    /\ UNCHANGED <<view_vars, row_vars, choice_vars, crashed>>

\* The user closes the message box on top (QMessageBox.warning / critical,
\* lines 366 and 390).
CloseMessageBox ==
    /\ ~crashed
    /\ msgbox # <<>>
    /\ msgbox' = SubSeq(msgbox, 1, Len(msgbox) - 1)
    /\ Unmarked
    /\ UNCHANGED <<view_vars, row_vars, choice_vars, loading, threads, crashed>>

\* The body of _add_filter_entry, lines 433-470.
add_filter_entry ==
    LET new_id == filter_id_counter
    IN  /\ filter_id_counter' = filter_id_counter + 1
        /\ rows' = Append(rows, [id |-> new_id, key |-> <<>>, val |-> <<>>,
                                 include |-> TRUE, blur |-> FALSE])
        /\ filter_entries' = Append(filter_entries,
                                 [id |-> new_id, key |-> <<>>, value |-> <<>>,
                                  include |-> TRUE, blur |-> FALSE])

\* _add_filter_entry, lines 433-470, from the add button.
AddFilterEntry ==
    /\ UiFree
    /\ Len(rows) < MaxRows
    /\ filter_id_counter < MaxIds
    /\ add_filter_entry
    /\ Unmarked
    /\ UNCHANGED <<parsed_list, filtered_list, total_size, current_page,
                   total_pages, displayed, choice_vars, fetch_vars>>

\* The user types into the line edits of a filter row or ticks its
\* checkboxes (the widgets of lines 438-446); nothing is applied.
EditFilterRow ==
    /\ UiFree
    /\ \E i \in DOMAIN rows, key \in RowKeys, val \in RowVals,
          include \in BOOLEAN, blur \in BOOLEAN :
        LET row == [id |-> rows[i].id, key |-> key, val |-> val,
                    include |-> include, blur |-> blur]
        IN  /\ row # rows[i]
            /\ rows' = [rows EXCEPT ![i] = row]
    /\ Unmarked
    /\ UNCHANGED <<view_vars, filter_id_counter, choice_vars, fetch_vars>>

\* _remove_filter_entry, lines 472-488, from the remove button of a row.
RemoveFilterEntry ==
    /\ UiFree
    /\ \E i \in DOMAIN rows :
        /\ rows' = RemoveAt(rows, i)
        /\ apply_filters(parsed_list, RemoveAt(rows, i), sort_order, time_filter)
    /\ Mark("_remove_filter_entry")
    /\ UNCHANGED <<parsed_list, filter_id_counter, choice_vars, fetch_vars>>

\* _apply_filters, lines 490-568, from the apply button.
ApplyFilters ==
    /\ UiFree
    /\ apply_filters(parsed_list, rows, sort_order, time_filter)
    /\ Mark("_apply_filters")
    /\ UNCHANGED <<parsed_list, row_vars, choice_vars, fetch_vars>>

\* _clear_filters, lines 577-593.
ClearFilters ==
    /\ UiFree
    /\ rows' = <<>>
    /\ filter_id_counter' = 0
    /\ apply_filters(parsed_list, <<>>, sort_order, time_filter)
    /\ Mark("_clear_filters")
    /\ UNCHANGED <<parsed_list, choice_vars, fetch_vars>>

\* _toggle_sort_order, lines 326-328, from the sort combo box, which
\* signals a changed index only (lines 203-207).
ToggleSortOrder ==
    /\ UiFree
    /\ \E order \in SortOrders :
        /\ order # sort_order
        /\ sort_order' = order
        /\ apply_filters(parsed_list, rows, order, time_filter)
    /\ Mark("_toggle_sort_order")
    /\ UNCHANGED <<parsed_list, row_vars, time_filter, time_edits, fetch_vars>>

\* _toggle_time_edit, lines 330-344, from the time-filter combo box.
ToggleTimeEdit ==
    /\ UiFree
    /\ \E tf \in TimeFilters :
        /\ tf # time_filter
        /\ time_filter' = tf
        /\ apply_filters(parsed_list, rows, sort_order, tf)
    /\ Mark("_toggle_time_edit")
    /\ UNCHANGED <<parsed_list, row_vars, sort_order, time_edits, fetch_vars>>

\* The user sets a time-edit widget; _toggle_time_edit shows only the
\* widgets of the selected time filter (lines 332-343), and their range
\* ends at the time of construction (lines 233-265).
EditTime ==
    /\ UiFree
    /\ \E t \in 1..NowTime :
        \/ /\ time_filter = "BEFORE_TIME"
           /\ t # time_edits.before
           /\ time_edits' = [time_edits EXCEPT !.before = t]
        \/ /\ time_filter = "AFTER_TIME"
           /\ t # time_edits.after
           /\ time_edits' = [time_edits EXCEPT !.after = t]
        \/ /\ time_filter = "TIME_RANGE"
           /\ t # time_edits.start
           /\ time_edits' = [time_edits EXCEPT !.start = t]
        \/ /\ time_filter = "TIME_RANGE"
           /\ t # time_edits.end
           /\ time_edits' = [time_edits EXCEPT !.end = t]
    /\ Unmarked
    /\ UNCHANGED <<view_vars, row_vars, sort_order, time_filter, fetch_vars>>

\* _on_page_change, lines 595-596, from the page spin box, whose range is
\* 1..total_pages and whose value is current_page (lines 359-362).
OnPageChange ==
    /\ UiFree
    /\ \E page \in 1..total_pages :
        /\ page # current_page
        /\ refresh_data(filtered_list, page)
    /\ Unmarked
    /\ UNCHANGED <<parsed_list, filtered_list, filter_entries, row_vars,
                   choice_vars, fetch_vars>>

\* ---------------------------------------------------------- specifications
\* The viewer and its fetch threads, from construction.  The time-edit
\* widgets keep the value of their construction here; TimeSpec edits them.
Next ==
    \/ QueryMasaLog
    \/ DismissLoading
    \/ RunThread
    \/ OnMasaLogApiFetched
    \/ OnMasaLogApiError
    \/ CloseMessageBox
    \/ AddFilterEntry
    \/ EditFilterRow
    \/ RemoveFilterEntry
    \/ ApplyFilters
    \/ ClearFilters
    \/ ToggleSortOrder
    \/ ToggleTimeEdit
    \/ OnPageChange

Spec == Init /\ [][Next]_vars

\* The state after construction and one delivered fetch of body, with the
\* filter rows rws added and filled in since and nothing applied yet.
AfterFetch(body, rws) ==
    LET parsed == parse_lines(body)
        sorted == sort_by_timestamp(parsed, "NEWEST_FIRST")
    IN  /\ parsed_list = parsed
        /\ filtered_list = sorted
        /\ filter_entries = [i \in DOMAIN rws |->
                                [id |-> rws[i].id, key |-> <<>>, value |-> <<>>,
                                 include |-> TRUE, blur |-> FALSE]]
        /\ filter_id_counter = Len(rws)
        /\ rows = rws
        /\ sort_order = "NEWEST_FIRST"
        /\ time_filter = "ALL"
        /\ time_edits = [before |-> NowTime, after |-> NowTime,
                         start |-> NowTime, end |-> NowTime]
        /\ total_size = Len(sorted)
        /\ current_page = 1
        /\ total_pages = total_pages_of(Len(sorted))
        /\ displayed = page_slice(sorted, 1)
        /\ loading = "hidden"
        /\ threads = <<>>
        /\ msgbox = <<>>
        /\ crashed = FALSE
        /\ last_op = "other"
        /\ prev_page = 0
        /\ response = <<>>

\* The key/value filter on its inputs: every list of up to MaxRecs records
\* over FilterParams, under every set of up to MaxFilterRows filter rows
\* over FilterKeys and FilterVals.
FilterKeys == {<<>>, <<"k">>, <<" ", "k">>, <<"j">>}
FilterVals == {<<>>, <<"a">>, <<"A">>, <<"a", " ">>, <<"7">>}

FilterParams ==
    { EmptyParams,
      [k \in {<<"k">>} |-> StrVal(<<"a">>)],
      [k \in {<<"k">>} |-> StrVal(<<"a", " ">>)],
      [k \in {<<"k">>, <<"j">>} |->
          IF k = <<"k">> THEN StrVal(<<"A">>) ELSE IntVal(7)],
      [k \in {<<"k">>, <<"j">>} |-> StrVal(<<"a">>)],
      [k \in {<<" ", "k">>} |-> StrVal(<<"a">>)] }

FilterBodies ==
    UNION { [1..n -> {Line(TRUE, 1, TRUE, pp) : pp \in FilterParams}] :
            n \in 0..MaxRecs }

FilterRowTexts ==
    [key : FilterKeys, val : FilterVals, include : BOOLEAN, blur : BOOLEAN]

FilterRows ==
    UNION { { [i \in 1..n |->
                 [id |-> i - 1, key |-> f[i].key, val |-> f[i].val,
                  include |-> f[i].include, blur |-> f[i].blur]] :
              f \in [1..n -> FilterRowTexts] } :
            n \in 0..MaxFilterRows }

FilterInit == \E body \in FilterBodies, rws \in FilterRows : AfterFetch(body, rws)

FilterNext == ApplyFilters

FilterSpec == FilterInit /\ [][FilterNext]_vars

\* Sorting and paging on their inputs: every list of up to MaxPages pages
\* whose timestamps repeat a pattern of up to three, the sentinel among them.
PagePatterns ==
    UNION { [1..n -> {Line(TRUE, t, TRUE, KA) : t \in 0..MaxTime}] : n \in 1..3 }

PageBodies ==
    { Cycle(pattern, n) : pattern \in PagePatterns, n \in 0..(MaxPages * page_size) }

PageInit == \E body \in PageBodies : AfterFetch(body, <<>>)

PageNext ==
    \/ OnPageChange
    \/ ToggleSortOrder

PageSpec == PageInit /\ [][PageNext]_vars

\* Extraction on its inputs: a query is under way, and the server answers
\* it with status 200 and any body of up to MaxLines lines over ExtractLines
\* (or the request fails).
ExtractLines ==
    { Line(TRUE, 1, TRUE, KA), Line(TRUE, 2, TRUE, KB), Line(FALSE, 1, TRUE, KA),
      Line(TRUE, 0, TRUE, KA), Line(TRUE, 1, FALSE, KA), DeepLine(1, KA) }

ExtractBodies == UNION { [1..n -> ExtractLines] : n \in 0..MaxLines }

\* The state after construction and one _query_masa_log.
ExtractInit ==
    /\ parsed_list = <<>>
    /\ filtered_list = <<>>
    /\ filter_entries = <<>>
    /\ filter_id_counter = 0
    /\ rows = <<>>
    /\ sort_order = "NEWEST_FIRST"
    /\ time_filter = "ALL"
    /\ time_edits = [before |-> NowTime, after |-> NowTime,
                     start |-> NowTime, end |-> NowTime]
    /\ total_size = 0
    /\ current_page = 1
    /\ total_pages = 1
    /\ displayed = <<>>
    /\ loading = "shown"
    /\ threads = <<[st |-> "running", outcome |-> "none", code |-> 0,
                    data |-> <<>>, held |-> TRUE]>>
    /\ msgbox = <<>>
    /\ crashed = FALSE
    /\ last_op = "other"
    /\ prev_page = 0
    /\ response = <<>>

ExtractRun ==
    /\ ~crashed
    /\ \E i \in DOMAIN threads : run(i, {200}, ExtractBodies)
    /\ UNCHANGED <<view_vars, row_vars, choice_vars, loading, msgbox, crashed>>

ExtractNext ==
    \/ ExtractRun
    \/ OnMasaLogApiFetched
    \/ OnMasaLogApiError
    \/ CloseMessageBox

ExtractSpec == ExtractInit /\ [][ExtractNext]_vars

\* The time filter on its inputs: every list of up to MaxRecs records with
\* timestamps up to MaxTime or the sentinel, with no filter row or one that
\* keeps the records of KA; the user picks a time filter, sets the time-edit
\* widgets and applies.
TimeBodies ==
    UNION { [1..n -> {Line(TRUE, t, TRUE, pp) : t \in 0..MaxTime, pp \in {KA, KB}}] :
            n \in 0..MaxRecs }

TimeRows ==
    { <<>>,
      <<[id |-> 0, key |-> <<"k">>, val |-> <<"a">>,
         include |-> TRUE, blur |-> FALSE]>> }

TimeInit == \E body \in TimeBodies, rws \in TimeRows : AfterFetch(body, rws)

TimeNext ==
    \/ ToggleTimeEdit
    \/ EditTime
    \/ ApplyFilters

TimeSpec == TimeInit /\ [][TimeNext]_vars

\* The fetch on its own, from construction: queries, the progress dialog,
\* the threads and their handlers.  A started thread runs on (the request
\* answers, fails or times out after 30 s, line 76), and the event loop
\* delivers an emitted signal to its slot.
FetchNext ==
    \/ QueryMasaLog
    \/ DismissLoading
    \/ RunThread
    \/ OnMasaLogApiFetched
    \/ OnMasaLogApiError
    \/ CloseMessageBox

\* A data_fetched signal waits for its slot: the condition under which
\* OnMasaLogApiFetched can take a step (the step removes the thread, so it
\* always changes the state).
FetchedPending ==
    ~crashed /\ \E i \in DOMAIN threads : threads[i].st = "data_fetched"

\* Weak fairness of the thread and of the two slots; that of
\* OnMasaLogApiFetched is written out with its enabling condition.
FetchSpec ==
    /\ Init
    /\ [][FetchNext]_vars
    /\ WF_vars(RunThread)
    /\ WF_vars(OnMasaLogApiError)
    /\ ([]<>(~FetchedPending) \/ []<><<OnMasaLogApiFetched>>_vars)

\* The filter rows on their own: rows are added, filled in, removed, applied
\* and cleared from construction on, with up to MaxEntryRows rows on screen.
AddFilterRow ==
    /\ UiFree
    /\ Len(rows) < MaxEntryRows
    /\ filter_id_counter < MaxEntryIds
    /\ add_filter_entry
    /\ Unmarked
    /\ UNCHANGED <<parsed_list, filtered_list, total_size, current_page,
                   total_pages, displayed, choice_vars, fetch_vars>>

RowNext ==
    \/ AddFilterRow
    \/ EditFilterRow
    \/ RemoveFilterEntry
    \/ ApplyFilters
    \/ ClearFilters

RowSpec == Init /\ [][RowNext]_vars

\* ------------------------------------------------------------------ claims
ApplyOps == {"_toggle_sort_order", "_apply_filters", "_remove_filter_entry",
             "_clear_filters"}

\* The string the record holds for a key, "" when the key is absent.
FieldText(rec, key) == PyStr(ParamGet(rec.post_params, key))

Kept(rec) == rec \in Range(filtered_list)

\* C1: after _apply_filters a record of parsed_list is kept iff, for every
\* key that occurs among the conditions, at least one condition with that
\* key matches the record's string for the key (AND across keys, OR within
\* a key); the kept records keep their order and none is added.
C1_AndAcrossKeysOrWithinKey ==
    last_op = "_apply_filters" =>
        LET conds == Range(filter_entries)
            passes(rec) ==
                \A key \in {c.key : c \in conds} :
                    \E c \in conds :
                        /\ c.key = key
                        /\ entry_matches_condition(c, FieldText(rec, key))
        IN  /\ \A i \in DOMAIN parsed_list :
                    Kept(parsed_list[i]) <=> passes(parsed_list[i])
            /\ \A i \in DOMAIN filtered_list :
                    filtered_list[i] \in Range(parsed_list)
            /\ \A i, j \in DOMAIN filtered_list :
                    i < j => filtered_list[i].line < filtered_list[j].line

\* Two conditions on one key, a kept record that one of them matches and the
\* other does not, and a record that is dropped.
C1_Witness ==
    /\ last_op = "_apply_filters"
    /\ Len(filter_entries) = 2
    /\ filter_entries[1].key = filter_entries[2].key
    /\ \E i \in DOMAIN filtered_list :
          LET v == FieldText(filtered_list[i], filter_entries[1].key)
          IN  /\ entry_matches_condition(filter_entries[1], v)
              /\ ~entry_matches_condition(filter_entries[2], v)
    /\ Len(filtered_list) < Len(parsed_list)

\* sub occurs in v as a contiguous run of characters.
IsSubstring(sub, v) ==
    \E a \in 0..Len(v), b \in 0..Len(v) : a <= b /\ SubSeq(v, a + 1, b) = sub

\* The strings the matcher is tried on.
MatchTexts ==
    FilterVals \cup {<<"a", "a">>, <<"A", "a">>, <<" ", "a", " ">>, <<"7", "a">>}

\* C2: _entry_matches_condition is equality for an exact condition and
\* substring containment for a fuzzy one, negated when include is false; an
\* exclude condition answers the opposite of its include twin.
C2_MatcherTable ==
    \A i \in DOMAIN filter_entries, v \in MatchTexts :
        LET c == filter_entries[i]
            base == IF c.blur THEN IsSubstring(c.value, v) ELSE c.value = v
        IN  /\ entry_matches_condition(c, v) = (IF c.include THEN base ELSE ~base)
            /\ entry_matches_condition([c EXCEPT !.include = FALSE], v)
                 = ~entry_matches_condition([c EXCEPT !.include = TRUE], v)

\* A fuzzy exclude condition applied to a record whose value holds the
\* condition's value and more: the record is dropped.
C2_Witness ==
    /\ last_op = "_apply_filters"
    /\ Len(filter_entries) = 1
    /\ ~filter_entries[1].include
    /\ filter_entries[1].blur
    /\ \E i \in DOMAIN parsed_list :
          LET v == FieldText(parsed_list[i], filter_entries[1].key)
          IN  /\ v # filter_entries[1].value
              /\ IsSubstring(filter_entries[1].value, v)
              /\ ~Kept(parsed_list[i])

\* The filter rows whose key and value are both non-empty.
LiveRows == SelectSeq(rows, LAMBDA r : r.key # <<>> /\ r.val # <<>>)

\* C3: rows with an empty key or value are inert: _apply_filters gives the
\* list it gives without them, and with no row that has both a key and a
\* value every record of parsed_list passes.
C3_InertRows ==
    last_op = "_apply_filters" =>
        /\ filtered_list =
              sort_by_timestamp(
                  filter_time(filter_conditions(parsed_list, read_conditions(LiveRows)),
                              time_filter, time_edits),
                  sort_order)
        /\ LiveRows = <<>> =>
              /\ Len(filtered_list) = Len(parsed_list)
              /\ \A i \in DOMAIN parsed_list : Kept(parsed_list[i])

\* An inert row next to a live one that drops some records and keeps others.
C3_Witness ==
    /\ last_op = "_apply_filters"
    /\ Len(rows) = 2
    /\ Len(LiveRows) = 1
    /\ Len(filtered_list) > 0
    /\ Len(filtered_list) < Len(parsed_list)

\* A single exact include row with a key and a value.
OneExactRow ==
    /\ last_op = "_apply_filters"
    /\ Len(rows) = 1
    /\ rows[1].include
    /\ ~rows[1].blur

\* C4 as claimed: the key and value are compared as entered, whitespace
\* included: an exact include row keeps a record iff the record's string
\* for the entered key is the entered value.
C4_ComparedAsEntered ==
    (OneExactRow /\ rows[1].key # <<>> /\ rows[1].val # <<>>) =>
        \A i \in DOMAIN parsed_list :
            Kept(parsed_list[i])
                <=> FieldText(parsed_list[i], rows[1].key) = rows[1].val

\* s without its leading and trailing whitespace, found as the stretch of s
\* that has only whitespace before and after it and none at its two ends.
Trimmed(s) ==
    LET ends == { ab \in (0..Len(s)) \X (0..Len(s)) :
                    /\ ab[1] <= ab[2]
                    /\ \A i \in 1..ab[1] : IsSpace(s[i])
                    /\ \A i \in (ab[2] + 1)..Len(s) : IsSpace(s[i])
                    /\ ab[1] < ab[2] =>
                          ~IsSpace(s[ab[1] + 1]) /\ ~IsSpace(s[ab[2]]) }
        ab == CHOOSE x \in ends : TRUE
    IN  SubSeq(s, ab[1] + 1, ab[2])

\* C4 amended: the key and value are compared with their leading and
\* trailing whitespace removed and otherwise unchanged (no case folding):
\* an exact include row whose trimmed key and value are not empty keeps a
\* record iff the record's string for the trimmed key is the trimmed value.
C4_ComparedTrimmed ==
    (OneExactRow /\ Trimmed(rows[1].key) # <<>> /\ Trimmed(rows[1].val) # <<>>) =>
        \A i \in DOMAIN parsed_list :
            Kept(parsed_list[i])
                <=> FieldText(parsed_list[i], Trimmed(rows[1].key))
                        = Trimmed(rows[1].val)

\* A row whose value was entered with whitespace around it, a record kept
\* by it and a record dropped.
C4_Witness ==
    /\ OneExactRow
    /\ Trimmed(rows[1].val) # rows[1].val
    /\ Trimmed(rows[1].val) # <<>>
    /\ Len(filtered_list) > 0
    /\ Len(filtered_list) < Len(parsed_list)

\* C5: filtered_list is ordered by timestamp, descending under NEWEST_FIRST
\* and ascending under OLDEST_FIRST, and records with equal timestamps keep
\* the relative order they have in parsed_list (which is in line order).
C5_SortedAndStable ==
    /\ \A i, j \in DOMAIN parsed_list :
          i < j => parsed_list[i].line < parsed_list[j].line
    /\ \A i, j \in DOMAIN filtered_list :
          i < j =>
            /\ IF sort_order = "NEWEST_FIRST"
               THEN ~TsLess(filtered_list[i].timestamp, filtered_list[j].timestamp)
               ELSE ~TsLess(filtered_list[j].timestamp, filtered_list[i].timestamp)
            /\ filtered_list[i].timestamp = filtered_list[j].timestamp
                  => filtered_list[i].line < filtered_list[j].line

\* A newest-first list, sorted by the sort combo box, with records of equal
\* and of different timestamps.
C5_Witness ==
    /\ last_op = "_toggle_sort_order"
    /\ sort_order = "NEWEST_FIRST"
    /\ \E i, j \in DOMAIN filtered_list :
          /\ i < j
          /\ filtered_list[i].timestamp = filtered_list[j].timestamp
    /\ \E i, j \in DOMAIN filtered_list :
          filtered_list[i].timestamp # filtered_list[j].timestamp

\* ceil(n / page_size) with a floor of one page, stated without the code's
\* arithmetic: the least count of pages of page_size records that hold n.
PagesNeeded(n) ==
    IF n = 0 THEN 1
    ELSE CHOOSE p \in 1..n : p * page_size >= n /\ (p - 1) * page_size < n

\* C6: in every reachable state 1 <= current_page <= total_pages, and
\* total_pages = max(1, ceil(len(filtered_list) / page_size)).
C6_PageWithinBounds ==
    /\ 1 <= current_page
    /\ current_page <= total_pages
    /\ total_pages = PagesNeeded(Len(filtered_list))

\* The last of several pages is shown, and a filter row is on screen that
\* an apply would drop records with.
C6_Witness ==
    /\ total_pages > 1
    /\ current_page = total_pages
    /\ rows # <<>>
    /\ Len(filter_conditions(parsed_list, read_conditions(rows))) < Len(parsed_list)

\* C7: right after _toggle_sort_order, and after the apply, remove and clear
\* of filter rows, current_page is 1.
C7_PageResetToOne == last_op \in ApplyOps => current_page = 1

\* The sort order was changed while a later page was shown.
C7_Witness ==
    /\ last_op = "_toggle_sort_order"
    /\ prev_page > 1
    /\ current_page = 1

\* The pages p..last of list, one after the other.
RECURSIVE PagesFrom(_, _, _)
PagesFrom(list, p, last) ==
    IF p > last THEN <<>>
    ELSE page_slice(list, p) \o PagesFrom(list, p + 1, last)

\* The records of list at the (0-based) positions lo..hi-1.
Stretch(list, lo, hi) == [i \in 1..(hi - lo) |-> list[lo + i]]

\* C8: the page shown for page number p is the slice
\* [(p-1)*page_size, min(p*page_size, len)), and the pages 1..total_pages
\* one after the other are filtered_list.
C8_PagesPartition ==
    /\ displayed = Stretch(filtered_list, (current_page - 1) * page_size,
                           Min(current_page * page_size, Len(filtered_list)))
    /\ \A p \in 1..total_pages :
          page_slice(filtered_list, p)
            = Stretch(filtered_list, (p - 1) * page_size,
                      Min(p * page_size, Len(filtered_list)))
    /\ PagesFrom(filtered_list, 1, total_pages) = filtered_list

\* The last of at least three pages is shown and is not full.
C8_Witness ==
    /\ total_pages >= 3
    /\ current_page = total_pages
    /\ Len(displayed) > 0
    /\ Len(displayed) < page_size

\* C9: at most one fetch is in flight: never two threads that were started
\* and whose signal has not been handled yet.
C9_OneFetchInFlight == Len(threads) <= 1

\* C10: a fetch that fails (an exception of the request, or a response whose
\* status is not 2xx) reports an error and delivers no records: its thread
\* never carries data_fetched.
C10_FailedFetchDeliversNothing ==
    \A i \in DOMAIN threads :
        (\/ threads[i].outcome \in {"ConnectionError", "Timeout", "HTTPError"}
         \/ /\ threads[i].outcome = "response"
            /\ ~(threads[i].code >= 200 /\ threads[i].code < 300))
        => threads[i].st = "error_occurred"

\* C11: a delivered fetch replaces the result set: the step of
\* _on_masa_log_api_fetched leaves in parsed_list exactly the records the
\* delivering thread produced, whatever parsed_list held before; it touches
\* no filter row, and filtered_list is what filtering and sorting the new
\* parsed_list with the rows on screen gives.
C11_FetchReplaces ==
    [][last_op' = "_on_masa_log_api_fetched" =>
          \E i \in DOMAIN threads :
              /\ threads[i].st = "data_fetched"
              /\ threads' = RemoveAt(threads, i)
              /\ parsed_list' = threads[i].data
              /\ rows' = rows
              /\ filter_id_counter' = filter_id_counter
              /\ filtered_list' =
                    sort_by_timestamp(
                        filter_time(
                            filter_conditions(threads[i].data, read_conditions(rows)),
                            time_filter, time_edits),
                        sort_order)]_vars

\* A fetch was delivered while the second page of an earlier, unfiltered
\* result was shown and a filter row had been filled in since: the new
\* records, no more than one fetch gives, are held, and the row has dropped
\* some of them.
C11_Witness ==
    /\ last_op = "_on_masa_log_api_fetched"
    /\ prev_page > 1
    /\ parsed_list # <<>>
    /\ Len(parsed_list) <= page_size + 3
    /\ Len(read_conditions(rows)) = 1
    /\ Len(filtered_list) > 0
    /\ Len(filtered_list) < Len(parsed_list)

\* C12: no two conditions of filter_entries have the same id, no two filter
\* rows on screen have the same id, and the id the next _add_filter_entry
\* gives (the value of _filter_id_counter) is the id of no condition and of
\* no row held.
C12_FilterIdsUnique ==
    /\ \A i, j \in DOMAIN filter_entries :
          i # j => filter_entries[i].id # filter_entries[j].id
    /\ \A i, j \in DOMAIN rows : i # j => rows[i].id # rows[j].id
    /\ \A i \in DOMAIN filter_entries : filter_entries[i].id # filter_id_counter
    /\ \A i \in DOMAIN rows : rows[i].id # filter_id_counter

\* A row was removed, the rest applied (the condition took the position of
\* its row as id), and a row was added after that: a condition numbered by
\* position stands next to one numbered by the counter.
C12_Witness ==
    /\ Len(rows) = 2
    /\ rows[1].id = 1
    /\ Len(filter_entries) = 2
    /\ filter_entries[1].id = 0
    /\ filter_entries[2].id = rows[2].id
    /\ filter_entries[2].id = 2

\* The positions of the lines of body that have the outer shape, in order.
RECURSIVE MatchingLines(_, _)
MatchingLines(body, n) ==
    IF n > Len(body) THEN <<>>
    ELSE IF body[n].shape THEN <<n>> \o MatchingLines(body, n + 1)
         ELSE MatchingLines(body, n + 1)

\* C13: a thread that has read a response of status 200 emits data_fetched,
\* and its records are, in line order, one for each line of the body that
\* has the outer shape and none for any other line; the record of a line
\* with an unparsable timestamp carries the sentinel, and the record of a
\* line whose JSON cannot be loaded has no fields.
C13_OneRecordPerMatchingLine ==
    \A i \in DOMAIN threads :
        (threads[i].st # "running" /\ threads[i].code = 200) =>
            LET at == MatchingLines(response, 1)
                data == threads[i].data
            IN  /\ threads[i].st = "data_fetched"
                /\ Len(data) = Len(at)
                /\ \A k \in DOMAIN at :
                      LET l == response[at[k]]
                      IN  /\ data[k].line = at[k]
                          /\ data[k].timestamp =
                                (IF l.iso = 0 THEN InvalidTime ELSE l.iso)
                          /\ data[k].post_params =
                                (IF json_loads(l) = "dict" THEN l.pp
                                 ELSE EmptyParams)

\* The time predicate of the selected time filter on a record: its parsed
\* timestamp lies within the bounds, bounds included.
InTime(rec) ==
    CASE time_filter = "BEFORE_TIME" ->
            rec.timestamp # InvalidTime /\ ~(rec.timestamp > time_edits.before)
      [] time_filter = "AFTER_TIME" ->
            rec.timestamp # InvalidTime /\ ~(rec.timestamp < time_edits.after)
      [] time_filter = "TIME_RANGE" ->
            /\ rec.timestamp # InvalidTime
            /\ ~(rec.timestamp < time_edits.start)
            /\ ~(rec.timestamp > time_edits.end)
      [] time_filter = "ALL" -> TRUE

\* The record passes the key/value conditions held.
PassesKeyValue(rec) ==
    \A key \in {c.key : c \in Range(filter_entries)} :
        \E c \in Range(filter_entries) :
            c.key = key /\ entry_matches_condition(c, FieldText(rec, key))

\* C14: after the filters are applied (by the apply button or by the choice
\* of a time filter), a record of parsed_list is in filtered_list iff it
\* passes the key/value conditions and its parsed timestamp t satisfies
\* t <= bound (BEFORE_TIME), t >= bound (AFTER_TIME), start <= t <= end
\* (TIME_RANGE); with ALL the time predicate removes nothing.  No record is
\* listed twice.
C14_TimeBoundsInclusive ==
    last_op \in {"_apply_filters", "_toggle_time_edit"} =>
        /\ \A i \in DOMAIN parsed_list :
              Kept(parsed_list[i])
                <=> (PassesKeyValue(parsed_list[i]) /\ InTime(parsed_list[i]))
        /\ \A i \in DOMAIN filtered_list : filtered_list[i] \in Range(parsed_list)
        /\ \A i, j \in DOMAIN filtered_list :
              i # j => filtered_list[i].line # filtered_list[j].line

\* A time range whose start and end the user has set to one time, applied
\* together with a key/value condition: the record at that time is kept, a
\* later record that passes the condition is dropped.
C14_Witness ==
    /\ last_op = "_apply_filters"
    /\ time_filter = "TIME_RANGE"
    /\ time_edits.start = time_edits.end
    /\ time_edits.start < NowTime
    /\ filter_entries # <<>>
    /\ \E i \in DOMAIN filtered_list :
          filtered_list[i].timestamp = time_edits.start
    /\ \E i \in DOMAIN parsed_list :
          /\ PassesKeyValue(parsed_list[i])
          /\ parsed_list[i].timestamp > time_edits.end
          /\ ~Kept(parsed_list[i])

\* The thread has emitted its signal.
Emitted(t) == t.st \in {"data_fetched", "error_occurred"}

\* What a step does to the threads: it starts one, or one that runs emits
\* one signal, or one signal is handled and its thread is done; a thread
\* that has emitted never emits again and never runs again.
OneSignalEach ==
    \/ threads' = threads
    \/ /\ Len(threads') = Len(threads) + 1
       /\ threads'[Len(threads')].st = "running"
       /\ \A i \in DOMAIN threads : threads'[i].st = threads[i].st
    \/ /\ Len(threads') = Len(threads)
       /\ \E i \in DOMAIN threads :
             /\ threads[i].st = "running"
             /\ Emitted(threads'[i])
             /\ \A j \in DOMAIN threads : j # i => threads'[j] = threads[j]
    \/ \E i \in DOMAIN threads :
          /\ Emitted(threads[i])
          /\ threads' = RemoveAt(threads, i)

====
